---- MODULE Spec2Model ----
(***************************************************************************)
(* Model of the access-control kiosk front end: the Socket.IO event        *)
(* handlers, the body visualisation and the PIN keypad of                  *)
(* static/js/websocket_handler.js and the AnimationController              *)
(* (unnamed/part_000).  Timers created with                                *)
(* setTimeout are kept in a queue of pending callbacks with the time that  *)
(* remains; the event loop is the callback actions On... and Advance.      *)
(***************************************************************************)
EXTENDS Naturals, Integers, Sequences, FiniteSets, TLC

(***************************************************************************)
(* Bounds of the model.                                                    *)
(***************************************************************************)
\* longest detected_classes array of a detection_update payload
MaxDetected == 1
\* longest required_classes array of a config_update payload
MaxRequired == 2
\* socket events delivered in one behaviour of SpecMap
MaxEvents == 2

(***************************************************************************)
(* Strings that pass through String.prototype.toLowerCase are sequences of *)
(* one-character strings, so that the conversion is computed and case is   *)
(* observable.                                                             *)
(***************************************************************************)
UpperChars == <<"A","B","C","D","E","F","G","H","I","J","K","L","M",
                "N","O","P","Q","R","S","T","U","V","W","X","Y","Z">>
LowerChars == <<"a","b","c","d","e","f","g","h","i","j","k","l","m",
                "n","o","p","q","r","s","t","u","v","w","x","y","z">>

\* the lower-case letter of each upper-case letter
UpperToLower ==
    [c \in {UpperChars[i] : i \in 1..26} |->
        LowerChars[CHOOSE i \in 1..26 : UpperChars[i] = c]]

LowerChar(c) == IF c \in DOMAIN UpperToLower THEN UpperToLower[c] ELSE c

\* faulty variant of toLowerCase: the string is returned as it is
toLowerCase_asIs(s) == s

toLowerCase(s) == [i \in 1..Len(s) |-> LowerChar(s[i])]

\* Array.prototype.map(c => c.toLowerCase())
mapLower(list) == [i \in 1..Len(list) |-> toLowerCase(list[i])]

\* Array.prototype.includes
includes(list, x) == \E i \in 1..Len(list) : list[i] = x

\* the class names of BODY_PART_MAPPING, character by character
S_Head == <<"H","e","a","d">>
S_Helmet == <<"H","e","l","m","e","t">>
S_Face == <<"F","a","c","e">>
S_Face_mask_medical == <<"F","a","c","e","-","m","a","s","k","-","m","e","d","i","c","a","l">>
S_Glasses == <<"G","l","a","s","s","e","s">>
S_Face_guard == <<"F","a","c","e","-","g","u","a","r","d">>
S_Ear == <<"E","a","r">>
S_Earmuffs == <<"E","a","r","m","u","f","f","s">>
S_Safety_vest == <<"S","a","f","e","t","y","-","v","e","s","t">>
S_Medical_suit == <<"M","e","d","i","c","a","l","-","s","u","i","t">>
S_Safety_suit == <<"S","a","f","e","t","y","-","s","u","i","t">>
S_Hands == <<"H","a","n","d","s">>
S_Gloves == <<"G","l","o","v","e","s">>
S_Foot == <<"F","o","o","t">>
S_Shoes == <<"S","h","o","e","s">>
S_helmet == <<"h","e","l","m","e","t">>

\* class names the backend can send in detected_classes / required_classes
ClassNames == {S_Helmet, S_helmet, S_Head, S_Gloves}

\* Object.keys(BODY_PART_MAPPING), in insertion order
RegionOrder == <<"head", "face", "eyes", "mouth", "ears", "chest",
                 "hands-left", "hands-right", "feet">>
Regions == {RegionOrder[i] : i \in 1..Len(RegionOrder)}

BODY_PART_MAPPING ==
       ("head" :> <<S_Head, S_Helmet>>)
    @@ ("face" :> <<S_Face, S_Face_mask_medical>>)
    @@ ("eyes" :> <<S_Glasses, S_Face_guard>>)
    @@ ("mouth" :> <<S_Face_mask_medical>>)
    @@ ("ears" :> <<S_Ear, S_Earmuffs>>)
    @@ ("chest" :> <<S_Safety_vest, S_Medical_suit, S_Safety_suit>>)
    @@ ("hands-left" :> <<S_Hands, S_Gloves>>)
    @@ ("hands-right" :> <<S_Hands, S_Gloves>>)
    @@ ("feet" :> <<S_Foot, S_Shoes>>)

COLORS == [REQUIRED_DETECTED |-> "#10B981", REQUIRED_MISSING |-> "#EF4444",
           NOT_REQUIRED |-> "#9CA3AF", CHECKING |-> "#F59E0B",
           DEFAULT |-> "#D1D5DB"]

(***************************************************************************)
(* The page.  Elements are addressed by id; an id outside `present` makes  *)
(* document.getElementById return null.                                    *)
(***************************************************************************)
PanelIds == {"access-status", "status-icon", "status-text", "status-message",
             "status-user", "door-progress", "door-progress-bar"}
PageIds == {"system-status", "face-status", "ppe-items-list"}
ElementIds == Regions \cup PanelIds \cup PageIds

StyleKeys == {"system-status.color", "face-status.background",
              "status-user.display", "door-progress.display",
              "door-progress-bar.width", "door-progress-bar.transition"}
             \cup {r \o ".transition" : r \in Regions}

\* markup as served, before any script has written to it
Markup == ""

VARIABLES
    currentState,       \* websocket_handler.js: let currentState
    currentPerson,      \* let currentPerson
    detectedClasses,    \* let detectedClasses
    requiredClasses,    \* let requiredClasses
    svgLoaded,          \* let svgLoaded
    currentDetected,    \* let currentDetected
    currentRequired,    \* let currentRequired
    isAnimating,        \* AnimationController.isAnimating
    present,            \* ids of the elements attached to the document
    classes,            \* element id -> its classList
    text,               \* element id -> its textContent
    style,              \* "id.property" -> inline style value
    fill,               \* region id -> fill colour of its shapes
    particles,          \* number of particle <div>s inside #access-status
    ppeList,            \* rendered content of #ppe-items-list
    timers,             \* pending setTimeout callbacks, in creation order
    emitted,            \* messages sent with socket.emit, in order
    hidden,             \* document.hidden
    seqGen,             \* global sequences started so far
    clearGen,           \* clearAllAnimations calls so far
    nEvents,            \* external events and calls so far
    last,               \* the handler or callback that ran last
    pinValue,           \* PIN keypad: let pinValue, digit by digit
    dots,               \* number of dot-1..dot-6 carrying 'filled'
    keysDisabled,       \* the disabled property of the .key buttons
    requests,           \* bodies of the POSTs to /api/auth/pin in flight
    alert,              \* the alert shown in #alert-container
    displayShake,       \* #pin-display carries 'shake'
    adminToken,         \* sessionStorage admin_token
    location,           \* the document the window shows
    lockStatus          \* the GET of /api/auth/lock-status

wsVars == <<currentState, currentPerson, detectedClasses, requiredClasses>>
vizVars == <<svgLoaded, currentDetected, currentRequired, fill>>
domVars == <<classes, text, style, particles, ppeList>>
seqVars == <<isAnimating, seqGen, clearGen>>
netVars == <<emitted, hidden>>
pinVars == <<pinValue, dots, keysDisabled, requests, alert, displayShake,
            adminToken, location, lockStatus>>
vars == <<wsVars, vizVars, domVars, seqVars, netVars, present, timers,
          nEvents, last, pinVars>>

NullPerson == [null |-> TRUE]

\* #alert-container before any alert: n counts the alerts created so far
NoAlert == [message |-> "", type |-> "", n |-> 0, shown |-> FALSE]

\* what `last` records: the operation, whether it was a timer callback (and
\* then the sequence and clear generation it was scheduled under) and
\* whether it ended by throwing; `on` is the element a call or callback
\* addressed
Ran(op) ==
    [op |-> op, on |-> "", timer |-> FALSE, seq |-> 0, clr |-> 0, threw |-> FALSE,
     state |-> ""]
Threw(op) ==
    [op |-> op, on |-> "", timer |-> FALSE, seq |-> 0, clr |-> 0, threw |-> TRUE,
     state |-> ""]

\* the state once both scripts have been evaluated, on a page with the
\* elements `p`: everything but what the body visualisation writes
InitCommon(p) ==
    /\ currentState = "IDLE"
    /\ currentPerson = NullPerson
    /\ isAnimating = FALSE
    /\ present = p
    /\ text = [e \in ElementIds |-> Markup]
    /\ style = [k \in StyleKeys |-> Markup]
    /\ particles = 0
    /\ timers = <<>>
    /\ emitted = <<"request_config">>
    /\ hidden = FALSE
    /\ seqGen = 0
    /\ clearGen = 0
    /\ nEvents = 0
    /\ last = Ran("load")
    /\ pinValue = <<>>
    /\ dots = 0
    /\ keysDisabled = FALSE
    /\ requests = <<>>
    /\ alert = NoAlert
    /\ displayShake = FALSE
    /\ adminToken = ""
    /\ location = "/login"
    /\ lockStatus = "pending"

\* ... and the rest, before any update has been received
InitPage(p) ==
    /\ InitCommon(p)
    /\ detectedClasses = <<>>
    /\ requiredClasses = <<>>
    /\ svgLoaded = FALSE
    /\ currentDetected = <<>>
    /\ currentRequired = <<>>
    /\ classes = [e \in ElementIds |-> {}]
    /\ fill = [r \in Regions |-> Markup]
    /\ ppeList = [kind |-> "markup", items |-> <<>>]

(***************************************************************************)
(* Body visualisation (websocket_handler.js, lines 302-510).               *)
(***************************************************************************)
\* partClassesLower, for every key of BODY_PART_MAPPING
partClassesLower == [p \in Regions |-> mapLower(BODY_PART_MAPPING[p])]

\* partClassesLower.some(cls => listLower.includes(cls))
someIncluded(partId, listLower) ==
    \E i \in 1..Len(partClassesLower[partId]) :
        includes(listLower, partClassesLower[partId][i])

\* faulty variant of isRequired: only the first synonym of the region is tested
isRequired_firstSynonym(partId, requiredLower) ==
    includes(requiredLower, partClassesLower[partId][1])

isRequired(partId, requiredLower) == someIncluded(partId, requiredLower)

isDetected(partId, detectedLower) == someIncluded(partId, detectedLower)

\* faulty variant of partColor: a region counts as detected only when a
\* synonym that is required is itself detected
partColor_sameClass(partId, detectedLower, requiredLower) ==
    IF ~isRequired(partId, requiredLower) THEN COLORS.NOT_REQUIRED
    ELSE IF \E i \in 1..Len(partClassesLower[partId]) :
                /\ includes(requiredLower, partClassesLower[partId][i])
                /\ includes(detectedLower, partClassesLower[partId][i])
    THEN COLORS.REQUIRED_DETECTED
    ELSE COLORS.REQUIRED_MISSING

\* the colour updateBodyVisualization chooses for a region
partColor(partId, detectedLower, requiredLower) ==
    IF ~isRequired(partId, requiredLower) THEN COLORS.NOT_REQUIRED
    ELSE IF isDetected(partId, detectedLower) THEN COLORS.REQUIRED_DETECTED
    ELSE COLORS.REQUIRED_MISSING

\* the glow class updateBodyVisualization leaves on a region
partGlow(partId, detectedLower, requiredLower) ==
    IF ~isRequired(partId, requiredLower) THEN {}
    ELSE IF isDetected(partId, detectedLower) THEN {"glow-green"}
    ELSE {"glow-red"}

\* setPartColor: a no-op on a region that is not in the document
setPartColor(f, p, partId, color) ==
    IF partId \in p THEN [f EXCEPT ![partId] = color] ELSE f

\* the fill colours after updateBodyVisualization has set every region
fillAfterUpdate(f, p, detected, required) ==
    LET detectedLower == mapLower(detected)
        requiredLower == mapLower(required)
    IN  [r \in Regions |->
            setPartColor(f, p, r,
                         partColor(r, detectedLower, requiredLower))[r]]

\* faulty variant of classesAfterUpdate: the attention marker is taken off
\* with the glow classes, as resetVisualization does
classesAfterUpdate_reset(c, p, detected, required) ==
    LET detectedLower == mapLower(detected)
        requiredLower == mapLower(required)
    IN  [e \in ElementIds |->
            IF e \in Regions /\ e \in p
            THEN (c[e] \ {"glow-green", "glow-red", "attention-animation"})
                     \cup partGlow(e, detectedLower, requiredLower)
            ELSE c[e]]

\* the class lists after updateBodyVisualization
classesAfterUpdate(c, p, detected, required) ==
    LET detectedLower == mapLower(detected)
        requiredLower == mapLower(required)
    IN  [e \in ElementIds |->
            IF e \in Regions /\ e \in p
            THEN (c[e] \ {"glow-green", "glow-red"})
                     \cup partGlow(e, detectedLower, requiredLower)
            ELSE c[e]]

\* updateBodyVisualization(detectedClasses, requiredClasses) as a relation on
\* the variables it writes; it returns early until the SVG is loaded
updateBodyVisualization(detected, required) ==
    IF ~svgLoaded
    THEN UNCHANGED <<currentDetected, currentRequired, fill, classes>>
    ELSE /\ currentDetected' = detected
         /\ currentRequired' = required
         /\ fill' = fillAfterUpdate(fill, present, detected, required)
         /\ classes' = classesAfterUpdate(classes, present, detected, required)

\* initBodyVisualization()
initBodyVisualization ==
    /\ svgLoaded' = TRUE
    /\ classes' = [e \in ElementIds |->
                      IF e \in Regions /\ e \in present
                      THEN classes[e] \cup {"body-part-transition"}
                      ELSE classes[e]]
    /\ fill' = [r \in Regions |->
                   setPartColor(fill, present, r, COLORS.DEFAULT)[r]]
    /\ last' = Ran("initBodyVisualization")
    /\ UNCHANGED <<wsVars, currentDetected, currentRequired, text, style,
                   particles, ppeList, seqVars, netVars, present, pinVars, timers>>

\* faulty variant of getStatusSummary: the detected classes are not lower-cased
getStatusSummary_rawDetected ==
    LET requiredLower == mapLower(currentRequired)
        missing == SelectSeq(requiredLower,
                             LAMBDA cls : ~includes(currentDetected, cls))
        detected == SelectSeq(requiredLower,
                              LAMBDA cls : includes(currentDetected, cls))
    IN  [total |-> Len(requiredLower), detected |-> Len(detected),
         missing |-> Len(missing), missingList |-> missing,
         allDetected |-> (Len(missing) = 0)]

\* getStatusSummary()
getStatusSummary ==
    LET detectedLower == mapLower(currentDetected)
        requiredLower == mapLower(currentRequired)
        missing == SelectSeq(requiredLower,
                             LAMBDA cls : ~includes(detectedLower, cls))
        detected == SelectSeq(requiredLower,
                              LAMBDA cls : includes(detectedLower, cls))
    IN  [total |-> Len(requiredLower), detected |-> Len(detected),
         missing |-> Len(missing), missingList |-> missing,
         allDetected |-> (Len(missing) = 0)]

(***************************************************************************)
(* Event payloads.  A payload is a record; a field the backend left out is *)
(* missing from its domain (reading it gives undefined).                   *)
(***************************************************************************)
has(data, f) == f \in DOMAIN data

RECURSIVE SeqsUpTo(_, _)
\* the arrays over S of length at most n in which no entry repeats
SeqsUpTo(S, n) ==
    IF n = 0 THEN {<<>>}
    ELSE LET shorter == SeqsUpTo(S, n - 1)
             longest == {t \in shorter : Len(t) = n - 1}
         IN  shorter \cup
             UNION {{Append(t, x) : x \in S \ {t[i] : i \in 1..Len(t)}} :
                       t \in longest}

\* confidence_scores as the backend reports it: per detected class, in percent
Scores(list) == [c \in {list[i] : i \in 1..Len(list)} |-> 90]

DetectionPayloads ==
    {[event |-> "detection_update", detected_classes |-> l,
      confidence_scores |-> Scores(l)] : l \in SeqsUpTo(ClassNames, MaxDetected)}
    \cup {[event |-> "detection_update", detected_classes |-> l] :
             l \in SeqsUpTo(ClassNames, MaxDetected)}
    \cup {[event |-> "detection_update"]}

ConfigPayloads ==
    {[event |-> "config_update", required_classes |-> l] :
        l \in SeqsUpTo(ClassNames, MaxRequired)}
    \cup {[event |-> "config_update"]}

(***************************************************************************)
(* detection_update and config_update (websocket_handler.js, 40-53,        *)
(* 171-209).                                                               *)
(***************************************************************************)
\* one entry of the PPE list, as requiredClasses.map renders it
ppeItem(className, data) ==
    LET det == \E i \in 1..Len(data.detected_classes) :
                   toLowerCase(data.detected_classes[i]) = toLowerCase(className)
        conf == IF has(data, "confidence_scores")
                   /\ className \in DOMAIN data.confidence_scores
                THEN data.confidence_scores[className] ELSE 0
    IN  [name |-> className, detected |-> det,
         percent |-> IF det THEN conf ELSE 0]

\* updatePPEList(data.detected_classes, data.confidence_scores) throws a
\* TypeError when it calls .some on an undefined `detected`
ppeListThrows(data) ==
    /\ Len(requiredClasses) # 0
    /\ ~has(data, "detected_classes")

updatePPEList(data) ==
    IF Len(requiredClasses) = 0
    THEN ppeList' = [kind |-> "placeholder", items |-> <<>>]
    ELSE IF ppeListThrows(data)
    THEN ppeList' = ppeList
    ELSE ppeList' = [kind |-> "items",
                     items |-> [i \in 1..Len(requiredClasses) |->
                                   ppeItem(requiredClasses[i], data)]]

\* socket.on('detection_update')
detection_update(data) ==
    /\ detectedClasses' = (IF has(data, "detected_classes")
                           THEN data.detected_classes ELSE <<>>)
    /\ updateBodyVisualization(detectedClasses', requiredClasses)
    /\ updatePPEList(data)
    /\ last' = IF ppeListThrows(data) THEN Threw("detection_update")
               ELSE Ran("detection_update")
    /\ UNCHANGED <<currentState, currentPerson, requiredClasses, svgLoaded,
                   text, style, particles, seqVars, netVars, present, pinVars, timers>>

\* socket.on('config_update')
config_update(data) ==
    /\ requiredClasses' = (IF has(data, "required_classes")
                           THEN data.required_classes ELSE <<>>)
    /\ updateBodyVisualization(detectedClasses, requiredClasses')
    /\ last' = Ran("config_update")
    /\ UNCHANGED <<currentState, currentPerson, detectedClasses, svgLoaded,
                   text, style, particles, ppeList, seqVars, netVars, present, pinVars,
                   timers>>

\* one more external event or call, while the budget `max` lasts
Count(max) == nEvents < max /\ nEvents' = nEvents + 1

(***************************************************************************)
(* SpecMap: the coverage mapping on its own -- detection and config        *)
(* updates in any order, the SVG being initialised at any point.           *)
(***************************************************************************)
\* the page SpecMap runs on: the SVG holds the seven regions that
\* animateBodyPartsSuccess addresses; "mouth" and "ears", which only
\* BODY_PART_MAPPING names, are not in it, so that both branches of every
\* `if (part)` are taken
PageChoices == {ElementIds \ {"mouth", "ears"}}

InitMap == \E p \in PageChoices : InitPage(p)

MapDetection ==
    Count(MaxEvents) /\ \E data \in DetectionPayloads : detection_update(data)
MapConfig ==
    Count(MaxEvents) /\ \E data \in ConfigPayloads : config_update(data)
MapInit == initBodyVisualization /\ UNCHANGED nEvents

NextMap == MapDetection \/ MapConfig \/ MapInit

SpecMap == InitMap /\ [][NextMap]_vars

(***************************************************************************)
(* Properties of the coverage mapping.  Case-insensitive equality is       *)
(* stated here without toLowerCase: two names agree when they have the     *)
(* same length and agree position by position up to the case of a letter.  *)
(***************************************************************************)
CharFold(x, y) ==
    x = y \/ \E k \in 1..26 : {x, y} = {UpperChars[k], LowerChars[k]}

EqFold(a, b) == Len(a) = Len(b) /\ \A i \in 1..Len(a) : CharFold(a[i], b[i])

InFold(list, c) == \E i \in 1..Len(list) : EqFold(list[i], c)

Synonyms(r) == {BODY_PART_MAPPING[r][i] : i \in 1..Len(BODY_PART_MAPPING[r])}

RegionRequired(r, required) == \E c \in Synonyms(r) : InFold(required, c)

RegionDetected(r, detected) == \E c \in Synonyms(r) : InFold(detected, c)

\* the colour the mapping is to give a region
ExpectedColor(r, detected, required) ==
    IF ~RegionRequired(r, required) THEN COLORS.NOT_REQUIRED
    ELSE IF RegionDetected(r, detected) THEN COLORS.REQUIRED_DETECTED
    ELSE COLORS.REQUIRED_MISSING

\* the last handler was a detection or config update that reached the SVG
Rendered ==
    svgLoaded /\ last.op \in {"detection_update", "config_update"}

Shown == Regions \cap present

\* C7: after updateBodyVisualization has run for detected and required
\* class lists, a region is NOT_REQUIRED iff none of its synonyms is
\* required, REQUIRED_AND_DETECTED iff one is required and one is
\* detected, REQUIRED_AND_MISSING iff one is required and none is
\* detected; with required = [Helmet, Gloves] and detected = [helmet] the
\* head is detected, both hands are missing, the rest is not required.
C7_RegionStatus ==
    Rendered =>
        /\ \A r \in Shown :
            /\ fill[r] = COLORS.NOT_REQUIRED
                   <=> ~RegionRequired(r, requiredClasses)
            /\ fill[r] = COLORS.REQUIRED_DETECTED
                   <=> (RegionRequired(r, requiredClasses)
                           /\ RegionDetected(r, detectedClasses))
            /\ fill[r] = COLORS.REQUIRED_MISSING
                   <=> (RegionRequired(r, requiredClasses)
                           /\ ~RegionDetected(r, detectedClasses))
        /\ requiredClasses = <<>> =>
               \A r \in Shown : fill[r] = COLORS.NOT_REQUIRED
        /\ (requiredClasses = <<S_Helmet, S_Gloves>>
                /\ detectedClasses = <<S_helmet>>) =>
               \A r \in Shown :
                   fill[r] = IF r = "head" THEN COLORS.REQUIRED_DETECTED
                             ELSE IF r \in {"hands-left", "hands-right"}
                             THEN COLORS.REQUIRED_MISSING
                             ELSE COLORS.NOT_REQUIRED

C7_Witness ==
    /\ Rendered
    /\ requiredClasses = <<S_Helmet, S_Gloves>>
    /\ detectedClasses = <<S_helmet>>
    /\ fill["head"] = COLORS.REQUIRED_DETECTED
    /\ fill["hands-left"] = COLORS.REQUIRED_MISSING
    /\ fill["feet"] = COLORS.NOT_REQUIRED

\* b is a with the letter case of some of its class names changed
CaseVariant(a, b) ==
    Len(a) = Len(b) /\ \A i \in 1..Len(a) : EqFold(a[i], b[i])

\* the lists that differ from a list only in letter case
CaseVariants ==
    [l \in SeqsUpTo(ClassNames, MaxRequired) \cup SeqsUpTo(ClassNames, MaxDetected)
        |-> {v \in SeqsUpTo(ClassNames, Len(l)) : CaseVariant(l, v)}]

\* C8: the region statuses shown for the detected and required lists are
\* the statuses the mapping gives to any lists that differ from them only
\* in the letter case of class names.
C8_CaseInsensitive ==
    Rendered =>
        \A d2 \in CaseVariants[detectedClasses],
           r2 \in CaseVariants[requiredClasses] :
            \A r \in Shown : fill[r] = partColor(r, mapLower(d2), mapLower(r2))

C8_Witness ==
    /\ Rendered
    /\ requiredClasses = <<S_helmet>>
    /\ detectedClasses = <<S_Helmet>>
    /\ fill["head"] = COLORS.REQUIRED_DETECTED

\* a region id spelled as a class name is spelled, for comparison with the
\* entries of missingList
RegionChars ==
       ("head" :> <<"h","e","a","d">>)
    @@ ("face" :> <<"f","a","c","e">>)
    @@ ("eyes" :> <<"e","y","e","s">>)
    @@ ("mouth" :> <<"m","o","u","t","h">>)
    @@ ("ears" :> <<"e","a","r","s">>)
    @@ ("chest" :> <<"c","h","e","s","t">>)
    @@ ("hands-left" :> <<"h","a","n","d","s","-","l","e","f","t">>)
    @@ ("hands-right" :> <<"h","a","n","d","s","-","r","i","g","h","t">>)
    @@ ("feet" :> <<"f","e","e","t">>)

MissingRegions == {r \in Shown : fill[r] = COLORS.REQUIRED_MISSING}

Entries(list) == {list[i] : i \in 1..Len(list)}

IsLower(s) == \A i \in 1..Len(s), k \in 1..26 : s[i] # UpperChars[k]

C10_NoDrift ==
    (svgLoaded /\ nEvents > 0) =>
        \A r \in Shown :
            fill[r] = ExpectedColor(r, detectedClasses, requiredClasses)

(***************************************************************************)
(* Timers.  setTimeout(f, d) appends a pending callback with d ms left.    *)
(* The event loop runs the callbacks whose time is up, oldest first, and   *)
(* otherwise lets time pass up to the next deadline.  A callback carries   *)
(* the global sequence (seq) and the number of clearAllAnimations calls    *)
(* (clr) it was scheduled under; a timer set by a callback inherits both.  *)
(***************************************************************************)
Timer(kind, target, arg, delay, seq, clr) ==
    [kind |-> kind, target |-> target, arg |-> arg, rem |-> delay,
     seq |-> seq, clr |-> clr]

HasDue == \E i \in 1..Len(timers) : timers[i].rem = 0

\* the callback the event loop runs next
DueIndex ==
    CHOOSE i \in 1..Len(timers) :
        timers[i].rem = 0 /\ \A j \in 1..(i - 1) : timers[j].rem # 0

DueTimer == timers[DueIndex]

Due(kind) == HasDue /\ DueTimer.kind = kind

\* the queue once the due callback has been taken off it
Rest == [i \in 1..(Len(timers) - 1) |->
            IF i < DueIndex THEN timers[i] ELSE timers[i + 1]]

RanTimer(t) ==
    [op |-> t.kind, on |-> t.target, timer |-> TRUE, seq |-> t.seq,
     clr |-> t.clr, threw |-> FALSE, state |-> ""]

MinRem == CHOOSE d \in {timers[i].rem : i \in 1..Len(timers)} :
              \A i \in 1..Len(timers) : d <= timers[i].rem

\* no callback is due: time passes until the next one is
Advance ==
    /\ timers # <<>>
    /\ ~HasDue
    /\ timers' = [i \in 1..Len(timers) |->
                     [timers[i] EXCEPT !.rem = @ - MinRem]]
    /\ UNCHANGED <<wsVars, vizVars, domVars, seqVars, netVars, present, pinVars,
                   nEvents, last>>

addClass(c, id, cls) == [c EXCEPT ![id] = @ \cup {cls}]
removeClass(c, id, cls) == [c EXCEPT ![id] = @ \ {cls}]

\* what no call or callback of the AnimationController writes
seqFrame == UNCHANGED <<wsVars, vizVars, ppeList, netVars, present, pinVars>>

(***************************************************************************)
(* AnimationController (unnamed/part_000).                                 *)
(***************************************************************************)
particleCount == 30

\* bodyParts of animateBodyPartsSuccess
bodyParts == <<"head", "face", "eyes", "chest", "hands-left", "hands-right",
               "feet">>

\* animateBodyPartsSuccess(): one timer per body part, 100 ms apart
animateBodyPartsSuccess(seq, clr) ==
    [i \in 1..Len(bodyParts) |->
        Timer("scaleIn", bodyParts[i], "", (i - 1) * 100, seq, clr)]

\* faulty variant of playAccessGranted: the particle burst is scheduled with
\* the welcome message, at 400 ms
playAccessGranted_earlyBurst(personName) ==
    /\ isAnimating' = TRUE
    /\ seqGen' = seqGen + 1
    /\ timers' = timers \o animateBodyPartsSuccess(seqGen', clearGen) \o
           << Timer("transitionStatus", "access-status", "granted", 200, seqGen', clearGen),
              Timer("showWelcome", "status-user", personName, 400, seqGen', clearGen),
              Timer("createParticles", "access-status", "", 400, seqGen', clearGen),
              Timer("doorOpening", "door-progress", "3000", 800, seqGen', clearGen),
              Timer("endGranted", "", "", 4000, seqGen', clearGen) >>
    /\ last' = Ran("playAccessGranted")
    /\ UNCHANGED <<clearGen, domVars>>
    /\ seqFrame

\* playAccessGranted(personName)
playAccessGranted(personName) ==
    /\ isAnimating' = TRUE
    /\ seqGen' = seqGen + 1
    /\ timers' = timers \o animateBodyPartsSuccess(seqGen', clearGen) \o
           << Timer("transitionStatus", "access-status", "granted", 200, seqGen', clearGen),
              Timer("showWelcome", "status-user", personName, 400, seqGen', clearGen),
              Timer("createParticles", "access-status", "", 600, seqGen', clearGen),
              Timer("doorOpening", "door-progress", "3000", 800, seqGen', clearGen),
              Timer("endGranted", "", "", 4000, seqGen', clearGen) >>
    /\ last' = Ran("playAccessGranted")
    /\ UNCHANGED <<clearGen, domVars>>
    /\ seqFrame

\* an effect that adds a class to an element and sets a timer to remove
\* it again; nothing happens when the element is not in the document.
\* Given the class lists c and the timer queue q, the two afterwards.
transientOn(c, q, elementId, cls, duration, seq, clr) ==
    IF elementId \in present
    THEN [classes |-> addClass(c, elementId, cls),
          timers |-> Append(q, Timer("removeClass", elementId, cls, duration,
                                     seq, clr))]
    ELSE [classes |-> c, timers |-> q]

\* faulty variant of shakeOn: the class is added and no timer is set to remove it
shakeOn_noTimer(c, q, elementId, seq, clr) ==
    IF elementId \in present
    THEN [classes |-> addClass(c, elementId, "shake-animation"), timers |-> q]
    ELSE [classes |-> c, timers |-> q]

\* the body of shakeElement(elementId)
shakeOn(c, q, elementId, seq, clr) ==
    transientOn(c, q, elementId, "shake-animation", 500, seq, clr)

\* the body of bounceElement(elementId)
bounceOn(c, q, elementId, seq, clr) ==
    transientOn(c, q, elementId, "bounce-animation", 600, seq, clr)

\* the body of flashElement(elementId, color)
flashOn(c, q, elementId, color, seq, clr) ==
    transientOn(c, q, elementId,
                IF color = "green" THEN "flash-green" ELSE "flash-red",
                1500, seq, clr)

\* a call of one of the three from outside any sequence
effectCall(op, elementId, after) ==
    /\ classes' = after.classes
    /\ timers' = after.timers
    /\ last' = [Ran(op) EXCEPT !.on = elementId]
    /\ UNCHANGED <<isAnimating, seqGen, clearGen, text, style, particles>>
    /\ seqFrame

shakeElement(elementId) ==
    effectCall("shakeElement", elementId,
               shakeOn(classes, timers, elementId, 0, clearGen))

bounceElement(elementId) ==
    effectCall("bounceElement", elementId,
               bounceOn(classes, timers, elementId, 0, clearGen))

flashElement(elementId, color) ==
    effectCall("flashElement", elementId,
               flashOn(classes, timers, elementId, color, 0, clearGen))

\* pulseElement(elementId, enable) and rotateElement(elementId, enable):
\* the class stays until the caller turns it off
toggleElement(op, cls, elementId, enable) ==
    /\ classes' = IF elementId \notin present THEN classes
                  ELSE IF enable THEN addClass(classes, elementId, cls)
                  ELSE removeClass(classes, elementId, cls)
    /\ last' = [Ran(op) EXCEPT !.on = elementId]
    /\ UNCHANGED <<isAnimating, seqGen, clearGen, text, style, particles,
                   timers>>
    /\ seqFrame

pulseElement(elementId, enable) ==
    toggleElement("pulseElement", "pulse-animation", elementId, enable)

rotateElement(elementId, enable) ==
    toggleElement("rotateElement", "rotate-animation", elementId, enable)

\* playAccessDenied(reason): shakes the status section at once and sets
\* the timers of the other steps
playAccessDenied(reason) ==
    LET shaken == shakeOn(classes, timers, "access-status", seqGen + 1, clearGen)
    IN  /\ isAnimating' = TRUE
        /\ seqGen' = seqGen + 1
        /\ classes' = shaken.classes
        /\ timers' = shaken.timers \o
               << Timer("highlightMissing", "", "", 200, seqGen', clearGen),
                  Timer("showDenialReason", "status-message", reason, 400,
                        seqGen', clearGen),
                  Timer("endDenied", "", "", 2000, seqGen', clearGen) >>
        /\ last' = Ran("playAccessDenied")
        /\ UNCHANGED <<clearGen, text, style, particles>>
        /\ seqFrame

animationClasses ==
    {"pulse-animation", "shake-animation", "bounce-animation", "slide-in-up",
     "slide-out-down", "fade-in", "fade-out", "scale-in", "flash-green",
     "flash-red", "glow-green", "glow-red", "attention-animation",
     "rotate-animation", "blink-animation"}

\* clearAllAnimations(): strips the animation classes from every element;
\* pending timers are not touched (no handle of a setTimeout is kept)
clearAllAnimations ==
    /\ classes' = [e \in ElementIds |->
                      IF e \in present THEN classes[e] \ animationClasses
                      ELSE classes[e]]
    /\ isAnimating' = FALSE
    /\ clearGen' = clearGen + 1
    /\ last' = Ran("clearAllAnimations")
    /\ UNCHANGED <<seqGen, text, style, particles, timers>>
    /\ seqFrame

(***************************************************************************)
(* The timer callbacks of the AnimationController.  Each is enabled when   *)
(* the callback the event loop runs next is of its kind.                   *)
(***************************************************************************)
\* what a callback leaves alone besides the variables it names
cbFrame == UNCHANGED <<seqGen, clearGen, nEvents>> /\ seqFrame

\* animateBodyPartsSuccess, the callback of one body part
OnScaleIn ==
    /\ Due("scaleIn")
    /\ LET t == DueTimer
       IN  /\ IF t.target \in present
              THEN /\ classes' = addClass(classes, t.target, "scale-in")
                   /\ style' = [style EXCEPT ![t.target \o ".transition"] =
                                    "all 0.5s ease"]
                   /\ timers' = Append(Rest, Timer("removeClass", t.target,
                                           "scale-in", 500, t.seq, t.clr))
              ELSE /\ timers' = Rest
                   /\ UNCHANGED <<classes, style>>
           /\ last' = RanTimer(t)
    /\ UNCHANGED <<isAnimating, text, particles>>
    /\ cbFrame

\* the callback that removes a class an effect has added
OnRemoveClass ==
    /\ Due("removeClass")
    /\ LET t == DueTimer
       IN  /\ classes' = removeClass(classes, t.target, t.arg)
           /\ timers' = Rest
           /\ last' = RanTimer(t)
    /\ UNCHANGED <<isAnimating, text, style, particles>>
    /\ cbFrame

\* step 2 of playAccessGranted: transitionStatusSection('granted')
OnTransitionStatus ==
    /\ Due("transitionStatus")
    /\ LET t == DueTimer
       IN  /\ IF "access-status" \in present
              THEN /\ classes' = addClass(classes, "access-status", "fade-out")
                   /\ timers' = Append(Rest, Timer("fadeIn", "access-status",
                                           "", 300, t.seq, t.clr))
              ELSE /\ timers' = Rest
                   /\ UNCHANGED classes
           /\ last' = RanTimer(t)
    /\ UNCHANGED <<isAnimating, text, style, particles>>
    /\ cbFrame

\* transitionStatusSection, 300 ms later: fade-out gives way to fade-in
OnFadeIn ==
    /\ Due("fadeIn")
    /\ LET t == DueTimer
       IN  /\ classes' = addClass(removeClass(classes, t.target, "fade-out"),
                                  t.target, "fade-in")
           /\ timers' = Append(Rest, Timer("removeClass", t.target, "fade-in",
                                           500, t.seq, t.clr))
           /\ last' = RanTimer(t)
    /\ UNCHANGED <<isAnimating, text, style, particles>>
    /\ cbFrame

\* faulty variant of OnShowWelcome: showWelcomeMessage without its null
\* check, so that writing to the absent element raises
OnShowWelcome_unguarded ==
    /\ Due("showWelcome")
    /\ LET t == DueTimer
       IN  IF "status-user" \in present
           THEN /\ text' = [text EXCEPT !["status-user"] =
                                "Welcome, " \o t.arg \o "!"]
                /\ style' = [style EXCEPT !["status-user.display"] = "block"]
                /\ classes' = addClass(classes, "status-user", "slide-in-up")
                /\ timers' = Append(Rest, Timer("removeClass", "status-user",
                                        "slide-in-up", 600, t.seq, t.clr))
                /\ last' = RanTimer(t)
           ELSE /\ timers' = Rest
                /\ last' = [RanTimer(t) EXCEPT !.threw = TRUE]
                /\ UNCHANGED <<text, style, classes>>
    /\ UNCHANGED <<isAnimating, particles>>
    /\ cbFrame

\* step 3 of playAccessGranted: showWelcomeMessage(personName)
OnShowWelcome ==
    /\ Due("showWelcome")
    /\ LET t == DueTimer
       IN  /\ IF "status-user" \in present
              THEN /\ text' = [text EXCEPT !["status-user"] =
                                   "Welcome, " \o t.arg \o "!"]
                   /\ style' = [style EXCEPT !["status-user.display"] = "block"]
                   /\ classes' = addClass(classes, "status-user", "slide-in-up")
                   /\ timers' = Append(Rest, Timer("removeClass", "status-user",
                                           "slide-in-up", 600, t.seq, t.clr))
              ELSE /\ timers' = Rest
                   /\ UNCHANGED <<text, style, classes>>
           /\ last' = RanTimer(t)
    /\ UNCHANGED <<isAnimating, particles>>
    /\ cbFrame

\* step 4 of playAccessGranted: createSuccessParticles() sets one timer per
\* particle, 50 ms apart (size, colour and position of a particle are drawn
\* with Math.random and are not part of the state)
OnCreateParticles ==
    /\ Due("createParticles")
    /\ LET t == DueTimer
       IN  /\ timers' = IF "access-status" \in present
                        THEN Rest \o [i \in 1..particleCount |->
                                 Timer("spawnParticle", "access-status", "",
                                       (i - 1) * 50, t.seq, t.clr)]
                        ELSE Rest
           /\ last' = RanTimer(t)
    /\ UNCHANGED <<isAnimating, classes, text, style, particles>>
    /\ cbFrame

\* createSuccessParticles, the callback of one particle
OnSpawnParticle ==
    /\ Due("spawnParticle")
    /\ LET t == DueTimer
       IN  /\ particles' = particles + 1
           /\ timers' = Append(Rest, Timer("removeParticle", t.target, "",
                                           1500, t.seq, t.clr))
           /\ last' = RanTimer(t)
    /\ UNCHANGED <<isAnimating, classes, text, style>>
    /\ cbFrame

\* particle.remove()
OnRemoveParticle ==
    /\ Due("removeParticle")
    /\ LET t == DueTimer
       IN  /\ particles' = particles - 1
           /\ timers' = Rest
           /\ last' = RanTimer(t)
    /\ UNCHANGED <<isAnimating, classes, text, style>>
    /\ cbFrame

\* step 5 of playAccessGranted: animateDoorOpening(3000)
OnDoorOpening ==
    /\ Due("doorOpening")
    /\ LET t == DueTimer
       IN  /\ IF {"door-progress", "door-progress-bar"} \subseteq present
              THEN /\ style' = [style EXCEPT
                                   !["door-progress.display"] = "block",
                                   !["door-progress-bar.width"] = "0%",
                                   !["door-progress-bar.transition"] = "none"]
                   /\ timers' = Append(Rest, Timer("doorFill",
                                    "door-progress-bar", t.arg, 50, t.seq, t.clr))
              ELSE /\ timers' = Rest
                   /\ UNCHANGED style
           /\ last' = RanTimer(t)
    /\ UNCHANGED <<isAnimating, classes, text, particles>>
    /\ cbFrame

\* animateDoorOpening, 50 ms later: the bar starts to fill
OnDoorFill ==
    /\ Due("doorFill")
    /\ LET t == DueTimer
       IN  /\ style' = [style EXCEPT
                           !["door-progress-bar.transition"] =
                               "width " \o t.arg \o "ms linear",
                           !["door-progress-bar.width"] = "100%"]
           /\ timers' = Rest
           /\ last' = RanTimer(t)
    /\ UNCHANGED <<isAnimating, classes, text, particles>>
    /\ cbFrame

\* the last timer of playAccessGranted (4000 ms)
OnEndGranted ==
    /\ Due("endGranted")
    /\ isAnimating' = FALSE
    /\ timers' = Rest
    /\ last' = RanTimer(DueTimer)
    /\ UNCHANGED <<classes, text, style, particles>>
    /\ cbFrame

\* the last timer of playAccessDenied (2000 ms)
OnEndDenied ==
    /\ Due("endDenied")
    /\ isAnimating' = FALSE
    /\ timers' = Rest
    /\ last' = RanTimer(DueTimer)
    /\ UNCHANGED <<classes, text, style, particles>>
    /\ cbFrame

\* faulty variant of missingParts: every required region is flashed, detected
\* or not
missingParts_allRequired ==
    SelectSeq(RegionOrder,
        LAMBDA partId : /\ isRequired(partId, mapLower(currentRequired))
                        /\ partId \in present)

\* the regions highlightMissingPPE flashes, in the order of
\* Object.keys(BODY_PART_MAPPING)
missingParts ==
    LET detectedLower == mapLower(currentDetected)
        requiredLower == mapLower(currentRequired)
    IN  SelectSeq(RegionOrder,
            LAMBDA partId : /\ isRequired(partId, requiredLower)
                            /\ ~isDetected(partId, detectedLower)
                            /\ partId \in present)

\* highlightMissingPPE(): the class lists and the timer queue afterwards
highlightOn(c, q, seq, clr) ==
    [classes |-> [e \in ElementIds |->
                     IF \E i \in 1..Len(missingParts) : missingParts[i] = e
                     THEN c[e] \cup {"attention-animation"} ELSE c[e]],
     timers |-> q \o [i \in 1..Len(missingParts) |->
                        Timer("removeClass", missingParts[i],
                              "attention-animation", 1000, seq, clr)]]

\* step 2 of playAccessDenied: highlightMissingPPE()
OnHighlightMissing ==
    /\ Due("highlightMissing")
    /\ LET t == DueTimer
           after == highlightOn(classes, Rest, t.seq, t.clr)
       IN  /\ classes' = after.classes
           /\ timers' = after.timers
           /\ last' = RanTimer(t)
    /\ UNCHANGED <<isAnimating, text, style, particles>>
    /\ cbFrame

\* window.highlightMissingPPE(), called from outside any sequence
highlightMissingPPE ==
    LET after == highlightOn(classes, timers, 0, clearGen)
    IN  /\ classes' = after.classes
        /\ timers' = after.timers
        /\ last' = Ran("highlightMissingPPE")
        /\ UNCHANGED <<isAnimating, seqGen, clearGen, text, style, particles>>
        /\ seqFrame

\* step 3 of playAccessDenied: showDenialReason(reason)
OnShowDenialReason ==
    /\ Due("showDenialReason")
    /\ LET t == DueTimer
           after == transientOn(classes, Rest, "status-message",
                                "attention-animation", 1000, t.seq, t.clr)
       IN  /\ classes' = after.classes
           /\ timers' = after.timers
           /\ last' = RanTimer(t)
    /\ UNCHANGED <<isAnimating, text, style, particles>>
    /\ cbFrame

(***************************************************************************)
(* SpecSeq: the AnimationController on its own.  The page has its SVG      *)
(* initialised and has received one config_update and one detection_update *)
(* (a state SpecMap reaches), so that highlightMissingPPE has regions to   *)
(* flash; from there the two global sequences and clearAllAnimations are   *)
(* called at any moments and the event loop runs the timers.               *)
(***************************************************************************)
\* calls of the controller in one behaviour of SpecSeq
MaxCalls == 2

PersonNames == {"Alex"}
Reasons == {"Missing required PPE"}

\* the page after initBodyVisualization(), config_update with the required
\* classes req and detection_update with the detected classes det
InitUpdated(p, det, req) ==
    /\ InitCommon(p)
    /\ detectedClasses = det
    /\ requiredClasses = req
    /\ svgLoaded = TRUE
    /\ currentDetected = det
    /\ currentRequired = req
    /\ classes = classesAfterUpdate(
                     [e \in ElementIds |->
                         IF e \in Regions /\ e \in p
                         THEN {"body-part-transition"} ELSE {}],
                     p, det, req)
    /\ fill = fillAfterUpdate([r \in Regions |-> Markup], p, det, req)
    /\ ppeList = IF Len(req) = 0
                 THEN [kind |-> "placeholder", items |-> <<>>]
                 ELSE [kind |-> "items",
                       items |-> [i \in 1..Len(req) |->
                           ppeItem(req[i],
                               [event |-> "detection_update",
                                detected_classes |-> det,
                                confidence_scores |-> Scores(det)])]]

InitSeq ==
    \E p \in PageChoices :
        InitUpdated(p, <<S_helmet>>, <<S_Helmet, S_Gloves>>)

SeqGranted ==
    Count(MaxCalls) /\ \E name \in PersonNames : playAccessGranted(name)
SeqDenied ==
    Count(MaxCalls) /\ \E reason \in Reasons : playAccessDenied(reason)
SeqClear ==
    Count(MaxCalls) /\ clearAllAnimations

\* the event loop, for the timers the controller sets
SeqTimers ==
    \/ Advance
    \/ OnScaleIn
    \/ OnRemoveClass
    \/ OnTransitionStatus
    \/ OnFadeIn
    \/ OnShowWelcome
    \/ OnCreateParticles
    \/ OnSpawnParticle
    \/ OnRemoveParticle
    \/ OnDoorOpening
    \/ OnDoorFill
    \/ OnEndGranted
    \/ OnEndDenied
    \/ OnHighlightMissing
    \/ OnShowDenialReason

NextSeq == SeqGranted \/ SeqDenied \/ SeqClear \/ SeqTimers

SpecSeq == InitSeq /\ [][NextSeq]_vars

(***************************************************************************)
(* Properties of the global sequences.                                     *)
(***************************************************************************)
\* the timed steps playAccessGranted and playAccessDenied schedule after
\* the first region marker
StepKinds == {"transitionStatus", "showWelcome", "createParticles",
              "doorOpening", "endGranted", "highlightMissing",
              "showDenialReason", "endDenied"}

\* C3 as claimed: starting a global sequence cancels the one before it, so
\* a timed step that runs belongs to the sequence started last.
C3_NoStepOfSupersededSequence ==
    (last.timer /\ last.op \in StepKinds) => last.seq = seqGen

\* C4 as claimed: clearAllAnimations aborts every pending callback, so a
\* callback that runs was scheduled after the last clearAllAnimations, and
\* right after clearAllAnimations no element carries an animation class.
C4_ClearAbortsPending ==
    /\ last.timer => last.clr = clearGen
    /\ last.op = "clearAllAnimations" =>
           \A e \in present : classes[e] \cap animationClasses = {}

\* C5 as claimed: while isAnimating is false no timed step of a global
\* sequence is pending.
C5_IdleHasNoPendingStep ==
    ~isAnimating =>
        \A i \in 1..Len(timers) : timers[i].kind \notin StepKinds \cup {"scaleIn"}

(***************************************************************************)
(* SpecLive: the transient effects under the event loop's fairness -- a    *)
(* callback whose time is up is run, and time passes while none is due.    *)
(***************************************************************************)
\* calls of the controller in one behaviour of SpecLive
MaxEffects == 1

\* "mouth" is not on the page
EffectTargets == {"access-status", "head", "mouth"}

LiveShake ==
    Count(MaxEffects) /\ \E id \in EffectTargets : shakeElement(id)
LiveBounce ==
    Count(MaxEffects) /\ \E id \in EffectTargets : bounceElement(id)
LiveFlash ==
    Count(MaxEffects) /\ \E id \in EffectTargets, color \in {"green", "red"} :
        flashElement(id, color)
LiveHighlight ==
    Count(MaxEffects) /\ highlightMissingPPE
LiveGranted ==
    Count(MaxEffects) /\ \E name \in PersonNames : playAccessGranted(name)
LiveDenied ==
    Count(MaxEffects) /\ \E reason \in Reasons : playAccessDenied(reason)

NextLive ==
    \/ LiveShake \/ LiveBounce \/ LiveFlash \/ LiveHighlight
    \/ LiveGranted \/ LiveDenied
    \/ SeqTimers

SpecLive == InitSeq /\ [][NextLive]_vars /\ WF_vars(SeqTimers)

\* the classes the transient effects add
TransientMarkers == {"shake-animation", "bounce-animation", "flash-green",
                     "flash-red", "scale-in", "fade-out", "fade-in",
                     "slide-in-up", "attention-animation"}

\* some transient marker is on some element
SomeMarker ==
    \E e \in ElementIds : classes[e] \cap TransientMarkers # {}

\* a timer is pending whose callback takes the marker m off the element e
RemovalPending(e, m) ==
    \E i \in 1..Len(timers) :
        /\ timers[i].target = e
        /\ \/ timers[i].kind = "removeClass" /\ timers[i].arg = m
           \/ timers[i].kind = "fadeIn" /\ m = "fade-out"

\* C6: a marker that a transient effect has put on an element is removed
\* again when its timer fires, whatever is or is not called afterwards:
\* while the marker is on the element a timer that removes it is pending,
\* and from any moment with a marker on some element a moment comes at
\* which no element carries one.
C6_MarkerIsRemoved ==
    /\ [](\A e \in ElementIds, m \in TransientMarkers :
              m \in classes[e] => RemovalPending(e, m))
    /\ SomeMarker ~> ~SomeMarker

C6_Witness ==
    /\ last.timer
    /\ last.op = "removeClass"
    /\ last.on = "access-status"
    /\ "shake-animation" \notin classes["access-status"]
    /\ timers = <<>>
    /\ seqGen = 0

(***************************************************************************)
(* The socket and page-lifecycle handlers (websocket_handler.js, 14-297).  *)
(* The page is the kiosk page: the handlers dereference its elements       *)
(* without a null check.  Icons are written by name.                       *)
(***************************************************************************)
\* reading a field the payload does not have
Undefined == "undefined"

\* `${value}` in a template literal
Str(data, f) == IF has(data, f) THEN data[f] ELSE "undefined"

\* data.f || fallback, for a string field ("" is falsy)
OrElse(data, f, fallback) ==
    IF has(data, f) /\ data[f] # "" THEN data[f] ELSE fallback

\* what the socket and lifecycle handlers leave alone besides the variables
\* each names
wsFrame == UNCHANGED <<vizVars, seqVars, present, pinVars, ppeList>>

\* socket.emit(message)
emit(message) == emitted' = Append(emitted, message)

\* socket.on('connect')
connect ==
    /\ text' = [text EXCEPT !["system-status"] = "* System Active"]
    /\ style' = [style EXCEPT !["system-status.color"] = "#10B981"]
    /\ emit("start_detection")
    /\ last' = Ran("connect")
    /\ UNCHANGED <<wsVars, classes, particles, hidden, timers>>
    /\ wsFrame

\* faulty variant of disconnect: the state machine is taken back to IDLE
disconnect_resets ==
    /\ currentState' = "IDLE"
    /\ text' = [text EXCEPT !["system-status"] = "* Disconnected"]
    /\ style' = [style EXCEPT !["system-status.color"] = "#EF4444"]
    /\ last' = Ran("disconnect")
    /\ UNCHANGED <<currentPerson, detectedClasses, requiredClasses, classes,
                   particles, netVars, timers>>
    /\ wsFrame

\* socket.on('disconnect')
disconnect ==
    /\ text' = [text EXCEPT !["system-status"] = "* Disconnected"]
    /\ style' = [style EXCEPT !["system-status.color"] = "#EF4444"]
    /\ last' = Ran("disconnect")
    /\ UNCHANGED <<wsVars, classes, particles, netVars, timers>>
    /\ wsFrame

\* socket.on('detection_started') and socket.on('detection_stopped'): the
\* payload is logged
detection_logged(event) ==
    /\ last' = Ran(event)
    /\ UNCHANGED <<wsVars, domVars, netVars, timers>>
    /\ wsFrame

\* (confidence * 100).toFixed(1), the confidence being given in thousandths
toFixed1(thousandths) ==
    ToString(thousandths \div 10) \o "." \o ToString(thousandths % 10)

\* socket.on('face_identified')
face_identified(data) ==
    /\ currentPerson' = data
    /\ IF data.matched
       THEN /\ text' = [text EXCEPT !["face-status"] =
                "ok " \o data.name \o " (" \o toFixed1(data.confidence) \o "%)"]
            /\ style' = [style EXCEPT !["face-status.background"] =
                "rgba(16, 185, 129, 0.8)"]
       ELSE IF data.name = "Unknown"
       THEN /\ text' = [text EXCEPT !["face-status"] = "! Unknown Person"]
            /\ style' = [style EXCEPT !["face-status.background"] =
                "rgba(239, 68, 68, 0.8)"]
       ELSE /\ text' = [text EXCEPT !["face-status"] = "Detecting..."]
            /\ style' = [style EXCEPT !["face-status.background"] =
                "rgba(0, 0, 0, 0.6)"]
    /\ last' = Ran("face_identified")
    /\ UNCHANGED <<currentState, detectedClasses, requiredClasses, classes,
                   particles, netVars, timers>>
    /\ wsFrame

\* statusSection.classList.remove('granted', 'denied', 'checking') and the
\* class the case adds
sectionClass(c, cls) ==
    [c EXCEPT !["access-status"] =
        (@ \ {"granted", "denied", "checking"}) \cup cls]

\* the four text slots of the status panel
panelText(t, icon, title, message) ==
    [t EXCEPT !["status-icon"] = icon, !["status-text"] = title,
              !["status-message"] = message]

\* createParticles(container, 20) of playSuccessAnimation
successParticles == 20

\* faulty variant of access_status_change: an event is dropped unless it names the
\* state that follows the current one in the access cycle (or IDLE)
access_status_change_checked(data) ==
    /\ currentState' =
           IF has(data, "state")
              /\ <<currentState, data.state>> \in
                   {<<"IDLE", "FACE_DETECTING">>,
                    <<"FACE_DETECTING", "FACE_RECOGNIZED">>,
                    <<"FACE_RECOGNIZED", "PPE_CHECKING">>,
                    <<"PPE_CHECKING", "ACCESS_GRANTED">>,
                    <<"PPE_CHECKING", "ACCESS_DENIED">>}
                   \cup {<<st, "IDLE">> : st \in {currentState}}
           THEN data.state ELSE currentState
    /\ last' = [Ran("access_status_change") EXCEPT !.state = Str(data, "state")]
    /\ UNCHANGED <<currentPerson, detectedClasses, requiredClasses, domVars,
                   netVars, timers>>
    /\ wsFrame

\* socket.on('access_status_change')
access_status_change(data) ==
    LET state == IF has(data, "state") THEN data.state ELSE Undefined
        welcome == "Welcome, " \o Str(data, "person_name") \o "!"
    IN
    /\ currentState' = state
    /\ last' = [Ran("access_status_change") EXCEPT !.state = Str(data, "state")]
    /\ UNCHANGED <<currentPerson, detectedClasses, requiredClasses, ppeList,
                   netVars>>
    /\ UNCHANGED <<vizVars, seqVars, present, pinVars>>
    /\ CASE state = "IDLE" ->
              /\ classes' = sectionClass(classes, {"checking"})
              /\ text' = panelText(text, "magnifier", "READY",
                                   "Please stand in front of camera")
              /\ style' = [style EXCEPT !["status-user.display"] = "none",
                                        !["door-progress.display"] = "none"]
              /\ UNCHANGED <<particles, timers>>
         [] state = "FACE_DETECTING" ->
              /\ classes' = addClass(sectionClass(classes, {"checking"}),
                                     "status-icon", "pulse-animation")
              /\ text' = panelText(text, "person", "DETECTING FACE...",
                                   "Please look at the camera")
              /\ style' = [style EXCEPT !["status-user.display"] = "none",
                                        !["door-progress.display"] = "none"]
              /\ UNCHANGED <<particles, timers>>
         [] state = "FACE_RECOGNIZED" ->
              /\ classes' = addClass(sectionClass(classes, {"checking"}),
                                     "status-user", "fade-in")
              /\ text' = [panelText(text, "check", "IDENTITY VERIFIED",
                                    "Checking PPE...")
                             EXCEPT !["status-user"] = welcome]
              /\ style' = [style EXCEPT !["status-user.display"] = "block",
                                        !["door-progress.display"] = "none"]
              /\ UNCHANGED <<particles, timers>>
         [] state = "PPE_CHECKING" ->
              /\ classes' = sectionClass(classes, {"checking"})
              /\ text' = panelText(text, "lens", "CHECKING PPE...",
                             OrElse(data, "message", "Please show required PPE"))
              /\ style' = [style EXCEPT !["door-progress.display"] = "none"]
              /\ UNCHANGED <<particles, timers>>
         [] state = "ACCESS_GRANTED" ->
              \* animateDoorProgress(data.duration || 3), playSuccessAnimation()
              /\ classes' = addClass(sectionClass(classes, {"granted"}),
                                     "access-status", "ripple-effect")
              /\ text' = [panelText(text, "tick", "ACCESS GRANTED",
                                    "Door opening...")
                             EXCEPT !["status-user"] = welcome]
              /\ style' = [style EXCEPT
                     !["status-user.display"] = "block",
                     !["door-progress.display"] = "block",
                     !["door-progress-bar.width"] = "0%",
                     !["door-progress-bar.transition"] =
                         "width " \o OrElse(data, "duration", "3") \o "s linear"]
              /\ particles' = particles + successParticles
              /\ timers' = timers \o
                     << Timer("progressFill", "door-progress-bar", "", 50, 0, clearGen) >>
                     \o [i \in 1..successParticles |->
                            Timer("removeParticle", "access-status", "", 1500, 0, clearGen)]
                     \o << Timer("removeClass", "access-status", "ripple-effect",
                                 1000, 0, clearGen) >>
         [] state = "ACCESS_DENIED" ->
              \* playDeniedAnimation()
              /\ classes' = addClass(sectionClass(classes, {"denied"}),
                                     "access-status", "shake-animation")
              /\ text' = [panelText(text, "cross", "ACCESS DENIED",
                             OrElse(data, "message", "Access requirements not met"))
                             EXCEPT !["status-user"] =
                                 IF OrElse(data, "person_name", "") # ""
                                 THEN data.person_name ELSE @]
              /\ style' = [style EXCEPT
                     !["status-user.display"] =
                         IF OrElse(data, "person_name", "") # ""
                         THEN "block" ELSE "none",
                     !["door-progress.display"] = "none"]
              /\ timers' = Append(timers,
                     Timer("removeClass", "access-status", "shake-animation",
                           500, 0, clearGen))
              /\ UNCHANGED particles
         [] OTHER ->
              /\ classes' = sectionClass(classes, {})
              /\ UNCHANGED <<text, style, particles, timers>>

\* animateDoorProgress, 50 ms later: the bar is set to its full width
OnProgressFill ==
    /\ Due("progressFill")
    /\ style' = [style EXCEPT !["door-progress-bar.width"] = "100%"]
    /\ timers' = Rest
    /\ last' = RanTimer(DueTimer)
    /\ UNCHANGED <<isAnimating, classes, text, particles>>
    /\ cbFrame

\* the 'visibilitychange' listener, document.hidden having become h
visibilitychange(h) ==
    /\ hidden' = h
    /\ emit(IF h THEN "stop_detection" ELSE "start_detection")
    /\ last' = Ran("visibilitychange")
    /\ UNCHANGED <<wsVars, domVars, timers>>
    /\ UNCHANGED <<vizVars, seqVars, present, pinVars>>

\* the 'beforeunload', 'unload' and 'pagehide' listeners
leaving(event) ==
    /\ emit("stop_detection")
    /\ last' = Ran(event)
    /\ UNCHANGED <<wsVars, domVars, hidden, timers>>
    /\ UNCHANGED <<vizVars, seqVars, present, pinVars>>

(***************************************************************************)
(* SpecSync: the kiosk page under the socket and lifecycle events, in any  *)
(* order and with any payload, the timers the handlers set running in      *)
(* between.                                                                *)
(***************************************************************************)
MaxSync == 2

States == {"IDLE", "FACE_DETECTING", "FACE_RECOGNIZED", "PPE_CHECKING",
           "ACCESS_GRANTED", "ACCESS_DENIED"}

\* the optional fields of an access_status_change payload
AccessExtras ==
    {[f \in fs |-> CASE f = "person_name" -> "Alex"
                     [] f = "message" -> "Hard hat missing"
                     [] f = "duration" -> "5"] :
        fs \in SUBSET {"person_name", "message", "duration"}}

AccessPayloads ==
    {[event |-> "access_status_change", state |-> st] @@ x :
        st \in States, x \in AccessExtras}
    \cup {[event |-> "access_status_change"]}

FacePayloads ==
    {[event |-> "face_identified", matched |-> TRUE, name |-> "Alex",
      confidence |-> 975],
     [event |-> "face_identified", matched |-> FALSE, name |-> "Unknown",
      confidence |-> 0],
     [event |-> "face_identified", matched |-> FALSE, name |-> "",
      confidence |-> 0]}

SyncDetectionPayloads ==
    {[event |-> "detection_update", detected_classes |-> <<S_helmet>>,
      confidence_scores |-> Scores(<<S_helmet>>)],
     [event |-> "detection_update"]}

SyncConfigPayloads ==
    {[event |-> "config_update", required_classes |-> <<S_Helmet, S_Gloves>>],
     [event |-> "config_update"]}

InitSync == InitPage(ElementIds)

SyncAccess ==
    Count(MaxSync) /\ \E data \in AccessPayloads : access_status_change(data)
SyncDetection ==
    Count(MaxSync) /\ \E data \in SyncDetectionPayloads : detection_update(data)
SyncConfig ==
    Count(MaxSync) /\ \E data \in SyncConfigPayloads : config_update(data)
SyncFace ==
    Count(MaxSync) /\ \E data \in FacePayloads : face_identified(data)
SyncConnect == Count(MaxSync) /\ connect
SyncDisconnect == Count(MaxSync) /\ disconnect
SyncLogged ==
    Count(MaxSync) /\ \E e \in {"detection_started", "detection_stopped"} :
                          detection_logged(e)
SyncVisibility == Count(MaxSync) /\ visibilitychange(~hidden)
SyncLeaving ==
    Count(MaxSync) /\ \E e \in {"beforeunload", "unload", "pagehide"} : leaving(e)
SyncInit == initBodyVisualization /\ UNCHANGED nEvents
SyncTimers ==
    \/ Advance
    \/ OnProgressFill
    \/ OnRemoveClass
    \/ OnRemoveParticle

NextSync ==
    \/ SyncAccess
    \/ SyncDetection
    \/ SyncConfig
    \/ SyncFace
    \/ SyncConnect
    \/ SyncDisconnect
    \/ SyncLogged
    \/ SyncVisibility
    \/ SyncLeaving
    \/ SyncInit
    \/ SyncTimers

SpecSync == InitSync /\ [][NextSync]_vars

(***************************************************************************)
(* Properties of the state machine mirror.  `last.state` is the state the  *)
(* event named, recorded as the event was received.                        *)
(***************************************************************************)
\* C1: once the access_status_change handler has run, currentState is the
\* state the event named, whatever currentState was before the event.
C1_StateIsEventState ==
    (last.op = "access_status_change" /\ last.state \in States)
        => currentState = last.state

\* the first event of the page takes IDLE straight to ACCESS_DENIED
C1_Witness ==
    /\ last.op = "access_status_change"
    /\ last.state = "ACCESS_DENIED"
    /\ currentState = "ACCESS_DENIED"
    /\ nEvents = 1

\* C2: currentState is IDLE when the page has loaded, and a step changes it
\* only if the step is the access_status_change handler.
C2_OnlyTheHandlerWrites ==
    /\ currentState = "IDLE"
    /\ [][currentState' # currentState
             => (last'.op = "access_status_change" /\ ~last'.timer)]_vars

\* another handler has run while currentState was away from IDLE
C2_Witness ==
    /\ last.op = "disconnect"
    /\ currentState = "ACCESS_GRANTED"

(***************************************************************************)
(* Properties of the messages the page sends and of the access handler.    *)
(***************************************************************************)
\* the handler of an inbound event or a page event has just run
Handled(op) == nEvents' # nEvents /\ last'.op = op

\* how many times the message has been sent
Sent(message) == Cardinality({i \in 1..Len(emitted) : emitted[i] = message})

\* C11 as claimed: start_detection is sent on every connect and every time
\* the page becomes visible, stop_detection on every disconnect, every time
\* the page is hidden, on pagehide and on unload, and request_config is
\* sent once, at startup.
C11_LifecycleEmits ==
    /\ Sent("request_config") = 1
    /\ [][/\ Handled("connect") => emitted' = Append(emitted, "start_detection")
          /\ (Handled("visibilitychange") /\ ~hidden')
                 => emitted' = Append(emitted, "start_detection")
          /\ (Handled("visibilitychange") /\ hidden')
                 => emitted' = Append(emitted, "stop_detection")
          /\ Handled("disconnect") => emitted' = Append(emitted, "stop_detection")
          /\ (Handled("pagehide") \/ Handled("unload") \/ Handled("beforeunload"))
                 => emitted' = Append(emitted, "stop_detection")
          /\ Sent("request_config")' = 1]_vars

\* the steps the two global sequences schedule when they start
GrantedSteps == {"scaleIn", "transitionStatus", "showWelcome",
                 "createParticles", "doorOpening", "endGranted"}
DeniedSteps == {"highlightMissing", "showDenialReason", "endDenied"}

Pending(kinds) == {i \in 1..Len(timers) : timers[i].kind \in kinds}

\* C12 as claimed: once the handler has run for an ACCESS_GRANTED
\* (ACCESS_DENIED) event the sequencer is active and the timed steps of its
\* granted (denied) sequence are scheduled.
C12_HandlerStartsSequence ==
    /\ (last.op = "access_status_change" /\ last.state = "ACCESS_GRANTED")
           => (isAnimating /\ Pending(GrantedSteps) # {})
    /\ (last.op = "access_status_change" /\ last.state = "ACCESS_DENIED")
           => (isAnimating /\ Pending(DeniedSteps) # {})

\* the text slots of the status panel
TextSlots == {"status-icon", "status-text", "status-message", "status-user"}

\* C15 as claimed: whatever fields an access_status_change event lacks,
\* after the handler no text slot shows a missing value, the status panel
\* carries exactly one of checking / granted / denied, and currentState is
\* one of the six states.
C15_MalformedEventsGetDefaults ==
    last.op = "access_status_change" =>
        /\ currentState \in States
        /\ Cardinality(classes["access-status"]
                           \cap {"checking", "granted", "denied"}) = 1
        /\ \A e \in TextSlots :
               text[e] \notin {Undefined, "Welcome, " \o Undefined \o "!"}

(***************************************************************************)
(* SpecFlow: detection and config updates arriving while the global        *)
(* sequences run.  The page is the one of SpecSeq; the sequences and the   *)
(* two updates come at any moments and the event loop runs the timers.     *)
(***************************************************************************)
\* calls and events in one behaviour of SpecFlow
MaxFlow == 2

FlowDetectionPayloads ==
    {[event |-> "detection_update", detected_classes |-> <<S_Gloves>>,
      confidence_scores |-> Scores(<<S_Gloves>>)],
     [event |-> "detection_update"]}

FlowConfigPayloads ==
    {[event |-> "config_update", required_classes |-> <<S_Helmet>>],
     [event |-> "config_update"]}

FlowGranted ==
    Count(MaxFlow) /\ \E name \in PersonNames : playAccessGranted(name)
FlowDenied ==
    Count(MaxFlow) /\ \E reason \in Reasons : playAccessDenied(reason)
FlowDetection ==
    Count(MaxFlow) /\ \E data \in FlowDetectionPayloads : detection_update(data)
FlowConfig ==
    Count(MaxFlow) /\ \E data \in FlowConfigPayloads : config_update(data)

NextFlow ==
    \/ FlowGranted
    \/ FlowDenied
    \/ FlowDetection
    \/ FlowConfig
    \/ SeqTimers

SpecFlow == InitSeq /\ [][NextFlow]_vars

\* the markers the steps of a global sequence put on elements
SequenceMarkers == {"scale-in", "attention-animation", "shake-animation",
                    "fade-in", "fade-out", "slide-in-up"}

\* C17: a detection_update or config_update handler leaves the active
\* flag, the pending timers (each with the time it has left) and the
\* sequence markers on every element as they were.
C17_UpdatesLeaveSequenceAlone ==
    [][(Handled("detection_update") \/ Handled("config_update"))
          => /\ isAnimating' = isAnimating
             /\ timers' = timers
             /\ \A e \in ElementIds :
                    classes'[e] \cap SequenceMarkers
                        = classes[e] \cap SequenceMarkers]_vars

\* an update has arrived while a denied sequence had put its shake on the
\* status panel and still had its three timed steps pending
C17_Witness ==
    /\ last.op \in {"detection_update", "config_update"}
    /\ isAnimating
    /\ Cardinality(Pending(DeniedSteps)) = 3
    /\ "shake-animation" \in classes["access-status"]

\* the regions whose status is REQUIRED_AND_MISSING for the lists the
\* mapping was last run on
MissingNow ==
    {r \in Shown : /\ RegionRequired(r, currentRequired)
                   /\ ~RegionDetected(r, currentDetected)}

\* C18: the flash step of the denied sequence puts the attention marker on
\* exactly the regions that are REQUIRED_AND_MISSING when it fires, changes
\* the classes of no other element, and sets for each of them, and for
\* nothing else, a timer that removes the marker 1000 ms later.
C18_FlashIsCurrentMissing ==
    [][(last' # last /\ last'.timer /\ last'.op = "highlightMissing")
          => /\ classes' = [e \in ElementIds |->
                               IF e \in MissingNow
                               THEN classes[e] \cup {"attention-animation"}
                               ELSE classes[e]]
             /\ \A r \in MissingNow : \E i \in 1..Len(timers') :
                    timers'[i] = Timer("removeClass", r, "attention-animation",
                                       1000, last'.seq, last'.clr)
             /\ Len(timers') = Len(timers) - 1 + Cardinality(MissingNow)]_vars

\* the flash step has run after a detection_update that arrived during the
\* sequence had left the head as the only missing region
C18_Witness ==
    /\ last.timer /\ last.op = "highlightMissing"
    /\ currentRequired = <<S_Helmet, S_Gloves>>
    /\ currentDetected = <<S_Gloves>>
    /\ "attention-animation" \in classes["head"]
    /\ "attention-animation" \notin classes["hands-left"]

(***************************************************************************)
(* The timetable of a global sequence that is not superseded.  A step is   *)
(* named by the kind of its timer and, for the region markers, its region; *)
(* `at` is its offset from the start of the sequence in ms.                *)
(***************************************************************************)
Step(kind, target, at) == [kind |-> kind, target |-> target, at |-> at]

GrantedPlan ==
    {Step("scaleIn", bodyParts[i], (i - 1) * 100) : i \in 1..Len(bodyParts)}
    \cup {Step("transitionStatus", "", 200), Step("showWelcome", "", 400),
          Step("createParticles", "", 600), Step("doorOpening", "", 800),
          Step("endGranted", "", 4000)}

DeniedPlan ==
    {Step("highlightMissing", "", 200), Step("showDenialReason", "", 400),
     Step("endDenied", "", 2000)}

\* the times left on the pending timers of the step
PendingRem(s) ==
    {timers[i].rem : i \in {j \in 1..Len(timers) :
        /\ timers[j].kind = s.kind
        /\ s.kind = "scaleIn" => timers[j].target = s.target}}

\* the step whose callback has run last
IsLast(s) ==
    /\ last.timer
    /\ last.op = s.kind
    /\ s.kind = "scaleIn" => last.on = s.target

\* C13: of a sequence that is the only one started, every step is
\* scheduled at its offset when the sequence starts (the denied shake is
\* applied at once); when a step fires, the steps with a later offset have
\* exactly the difference of the offsets left and the steps with an earlier
\* offset have fired; the active flag is true until the end step (4000 ms
\* granted, 2000 ms denied) fires and false once it has.
C13_StepTimes ==
    /\ [](seqGen = 1 =>
            /\ Pending({"endGranted", "endDenied"}) # {} => isAnimating
            /\ (last.timer /\ last.op \in {"endGranted", "endDenied"})
                   => ~isAnimating)
    /\ [][(seqGen' = 1 /\ last' # last) =>
            /\ last'.op = "playAccessGranted" =>
                   \A s \in GrantedPlan : PendingRem(s)' = {s.at}
            /\ last'.op = "playAccessDenied" =>
                   /\ "shake-animation" \in classes'["access-status"]
                   /\ \A s \in DeniedPlan : PendingRem(s)' = {s.at}
            /\ \A plan \in {GrantedPlan, DeniedPlan} : \A s \in plan :
                   IsLast(s)' =>
                       \A u \in plan :
                           /\ u.at > s.at => PendingRem(u)' = {u.at - s.at}
                           /\ u.at < s.at => PendingRem(u)' = {}]_vars

\* the end step of a granted sequence, the only sequence started, has run
C13_Witness ==
    /\ seqGen = 1
    /\ last.timer /\ last.op = "endGranted"
    /\ ~isAnimating
    /\ style["door-progress-bar.transition"] = "width 3000ms linear"

(***************************************************************************)
(* SpecAbsent: the calls of SpecLive on pages that lack rendering targets. *)
(* A target group is absent from the document for the whole behaviour; the *)
(* pages are the full page, the page without any target, and for each      *)
(* group the page that lacks only it and the page that has only it.        *)
(***************************************************************************)
TargetGroups == {Regions, {"access-status"}, {"status-user"},
                 {"status-message"}, {"door-progress"}, {"door-progress-bar"}}

Targets == UNION TargetGroups

AbsentChoices ==
    {{}, Targets} \cup TargetGroups \cup {Targets \ g : g \in TargetGroups}

InitAbsent ==
    \E absent \in AbsentChoices :
        InitUpdated((ElementIds \ {"mouth", "ears"}) \ absent,
                    <<S_helmet>>, <<S_Helmet, S_Gloves>>)

SpecAbsent == InitAbsent /\ [][NextLive]_vars

\* every timer of the queue q but the k-th is in the queue r, with the same
\* time left
Kept(q, k, r) ==
    \A i \in 1..Len(q) : i # k => \E j \in 1..Len(r) : r[j] = q[i]

\* C16: whatever targets the page lacks, no call and no callback raises, a
\* call or callback takes no timer but its own off the queue, the event
\* loop always has a step to take while timers are pending, and once no
\* timer is pending the active flag is false.
C16_AbsentTargetsAreNoOps ==
    /\ [](~last.threw)
    /\ [](timers # <<>> => ENABLED SeqTimers)
    /\ [](timers = <<>> => ~isAnimating)
    /\ [][/\ (last' # last /\ last'.timer) => Kept(timers, DueIndex, timers')
          /\ (last' # last /\ ~last'.timer) => Kept(timers, 0, timers')]_vars

\* a granted sequence has run to its end on the page without any target
C16_Witness ==
    /\ present \cap Targets = {}
    /\ last.timer /\ last.op = "endGranted"
    /\ timers = <<>>
    /\ ~isAnimating

(***************************************************************************)
(* The regions of the granted sequence.                                    *)
(***************************************************************************)
\* the regions for which a region marker of the sequence seq is pending
MarkerTargets(seq) ==
    {timers[i].target : i \in {j \in 1..Len(timers) :
        timers[j].kind = "scaleIn" /\ timers[j].seq = seq}}

\* C19 as claimed: when a granted sequence starts, a region marker is
\* scheduled for every region of BODY_PART_MAPPING and for nothing else,
\* one per region, the i-th at (i - 1) * 100 ms.
C19_EveryTrackedRegionIsMarked ==
    [][(last' # last /\ last'.op = "playAccessGranted") =>
          /\ MarkerTargets(seqGen)' = Regions
          /\ \A r \in Regions :
                 Cardinality({i \in 1..Len(timers') :
                     /\ timers'[i].kind = "scaleIn"
                     /\ timers'[i].seq = seqGen'
                     /\ timers'[i].target = r}) = 1]_vars

(***************************************************************************)
(* SpecMix: access_status_change events arriving while a global sequence   *)
(* runs.  A behaviour starts with a call of playAccessGranted or           *)
(* playAccessDenied (window.playAccessGranted / window.playAccessDenied    *)
(* are there for the page to call); the events follow at any moments, so   *)
(* every timer of the sequence has been set before every event.            *)
(***************************************************************************)
\* the call and the events in one behaviour of SpecMix
MaxMix == 2

MixAccessPayloads ==
    {[event |-> "access_status_change", state |-> st] : st \in States}
    \cup {[event |-> "access_status_change", state |-> st,
           person_name |-> "Alex", message |-> "Hard hat missing",
           duration |-> "5"] : st \in States}

MixGranted ==
    /\ nEvents = 0
    /\ Count(MaxMix)
    /\ \E name \in PersonNames : playAccessGranted(name)
MixDenied ==
    /\ nEvents = 0
    /\ Count(MaxMix)
    /\ \E reason \in Reasons : playAccessDenied(reason)
MixAccess ==
    /\ nEvents > 0
    /\ Count(MaxMix)
    /\ \E data \in MixAccessPayloads : access_status_change(data)

NextMix ==
    \/ MixGranted
    \/ MixDenied
    \/ MixAccess
    \/ SeqTimers
    \/ OnProgressFill

SpecMix == InitSeq /\ [][NextMix]_vars

\* the step is the access_status_change handler
AccessStep == last' # last /\ last'.op = "access_status_change"

\* the step is a timer callback
TimerStep == last' # last /\ last'.timer

\* C14 as claimed: the handler of an ACCESS_GRANTED event shows the
\* progress bar and sets its fill to the event's duration in seconds (3
\* without one), and until the next access_status_change no step gives the
\* fill another duration.
C14_FillKeepsEventDuration ==
    [][/\ \A data \in MixAccessPayloads :
              (data.state = "ACCESS_GRANTED" /\ AccessStep
                   /\ last'.state = "ACCESS_GRANTED"
                   /\ text'["status-user"] =
                          "Welcome, " \o Str(data, "person_name") \o "!")
                  => /\ style'["door-progress.display"] = "block"
                     /\ style'["door-progress-bar.transition"] =
                            "width " \o OrElse(data, "duration", "3")
                                \o "s linear"
       /\ (currentState = "ACCESS_GRANTED" /\ ~AccessStep)
              => style'["door-progress-bar.transition"]
                     = style["door-progress-bar.transition"]]_vars

\* an access_status_change event has been handled
AccessSeen ==
    classes["access-status"] \cap {"checking", "granted", "denied"} # {}

\* C20 as claimed: once an access_status_change event has been handled, a
\* callback of a timer set before it changes neither the text nor the
\* visibility of the welcome element nor the visibility of the progress
\* indicator; after IDLE or FACE_DETECTING both stay hidden.
C20_NewerEventWins ==
    /\ []((AccessSeen /\ currentState \in {"IDLE", "FACE_DETECTING"})
             => /\ style["status-user.display"] = "none"
                /\ style["door-progress.display"] = "none")
    /\ [][(AccessSeen /\ TimerStep)
             => /\ text'["status-user"] = text["status-user"]
                /\ style'["status-user.display"] = style["status-user.display"]
                /\ style'["door-progress.display"]
                       = style["door-progress.display"]]_vars

(***************************************************************************)
(* Properties of the styling the access handler leaves behind.             *)
(***************************************************************************)
\* the style class each state gives the status panel
StateClass ==
    [st \in States |-> CASE st = "ACCESS_GRANTED" -> "granted"
                         [] st = "ACCESS_DENIED" -> "denied"
                         [] OTHER -> "checking"]

\* C21 as claimed: once an access_status_change event has been handled the
\* status panel carries the style class of the current state and of no
\* other, the status icon pulses only while currentState is FACE_DETECTING
\* and the welcome element carries the fade-in marker only while
\* currentState is FACE_RECOGNIZED.
C21_StateStylingCleared ==
    currentState \in States =>
        /\ AccessSeen
               => classes["access-status"] \cap {"checking", "granted", "denied"}
                      = {StateClass[currentState]}
        /\ "pulse-animation" \in classes["status-icon"]
               => currentState = "FACE_DETECTING"
        /\ "fade-in" \in classes["status-user"]
               => currentState = "FACE_RECOGNIZED"

(***************************************************************************)
(* Properties of the detection_update handler.                             *)
(***************************************************************************)
\* the detected classes a detection_update payload carries
Carried(data) ==
    IF has(data, "detected_classes") THEN data.detected_classes ELSE <<>>

\* C22 as claimed: for every payload, with detected_classes or
\* confidence_scores missing or not, and whatever requiredClasses is, the
\* detection_update handler ends without raising, has stored the detected
\* classes of the payload (none when the field is missing), has rendered the
\* regions for them and has rendered the PPE list anew: the placeholder
\* when nothing is required, one entry per required class otherwise.
C22_DetectionUpdateNeverFails ==
    [][Handled("detection_update") =>
          /\ ~last'.threw
          /\ \E data \in SyncDetectionPayloads :
                 detectedClasses' = Carried(data)
          /\ svgLoaded =>
                 \A r \in Shown :
                     fill'[r] = ExpectedColor(r, detectedClasses', requiredClasses)
          /\ ppeList'.kind =
                 (IF requiredClasses = <<>> THEN "placeholder" ELSE "items")
          /\ Len(ppeList'.items) = Len(requiredClasses)]_vars

(***************************************************************************)
(* Properties of the detection requests of a hidden page.                  *)
(***************************************************************************)
\* the start_detection / stop_detection message sent last, if any
LastSignal ==
    LET sent == {i \in 1..Len(emitted) :
                    emitted[i] \in {"start_detection", "stop_detection"}}
    IN  IF sent = {} THEN "none"
        ELSE emitted[CHOOSE i \in sent : \A j \in sent : j <= i]

\* C23 as claimed: while the page is hidden the lifecycle message sent last
\* is stop_detection, or none has been sent, whatever the order of connect,
\* disconnect and visibilitychange events; no step sends start_detection
\* and leaves the page hidden.
C23_NoStartWhileHidden ==
    /\ [](hidden => LastSignal \in {"stop_detection", "none"})
    /\ [][(hidden' /\ emitted' # emitted)
             => emitted' # Append(emitted, "start_detection")]_vars

(***************************************************************************)
(* SpecRepeat: transient effects applied again while an earlier            *)
(* application is still running.  The effects are called, and              *)
(* ACCESS_DENIED events are received, at any moments, also between two     *)
(* deadlines of the timer queue.                                           *)
(***************************************************************************)
\* calls and events in one behaviour of SpecRepeat
MaxRepeat == 2

\* the time, in ms, that may pass between two calls while a timer is pending
Gaps == {100, 300}

\* time passes, less than it takes for the next callback to be due
Elapse ==
    /\ timers # <<>>
    /\ ~HasDue
    /\ \E d \in Gaps :
           /\ d < MinRem
           /\ timers' = [i \in 1..Len(timers) |->
                            [timers[i] EXCEPT !.rem = @ - d]]
    /\ UNCHANGED <<wsVars, vizVars, domVars, seqVars, netVars, present, pinVars,
                   nEvents, last>>

RepeatDeniedPayloads ==
    {[event |-> "access_status_change", state |-> "ACCESS_DENIED"],
     [event |-> "access_status_change", state |-> "ACCESS_DENIED",
      person_name |-> "Alex", message |-> "Hard hat missing"]}

RepeatShake ==
    Count(MaxRepeat) /\ \E id \in EffectTargets : shakeElement(id)
RepeatBounce ==
    Count(MaxRepeat) /\ \E id \in EffectTargets : bounceElement(id)
RepeatFlash ==
    Count(MaxRepeat) /\ \E id \in EffectTargets, color \in {"green", "red"} :
        flashElement(id, color)
RepeatHighlight ==
    Count(MaxRepeat) /\ highlightMissingPPE
RepeatDenied ==
    Count(MaxRepeat) /\ \E data \in RepeatDeniedPayloads :
                            access_status_change(data)

NextRepeat ==
    \/ RepeatShake
    \/ RepeatBounce
    \/ RepeatFlash
    \/ RepeatHighlight
    \/ RepeatDenied
    \/ Elapse
    \/ Advance
    \/ OnRemoveClass

SpecRepeat == InitSeq /\ [][NextRepeat]_vars

\* C24 as claimed: while the duration of an application of a transient
\* effect has not elapsed its marker is on the target, also when the same
\* effect was applied to the target earlier and that application's timer
\* has fired in between; and the callback that removes a marker from one
\* target leaves the classes of every other target alone.
C24_MarkerKeptForDuration ==
    /\ [](\A i \in 1..Len(timers) :
              (timers[i].kind = "removeClass" /\ timers[i].rem > 0)
                  => timers[i].arg \in classes[timers[i].target])
    /\ [][(last' # last /\ last'.timer /\ last'.op = "removeClass")
             => \A e \in ElementIds \ {last'.on} : classes'[e] = classes[e]]_vars

(***************************************************************************)
(* Properties of the regions shown as satisfied.                           *)
(***************************************************************************)
\* C25 as claimed: a region is shown REQUIRED_AND_DETECTED only if one
\* class is among its synonyms, required and detected all at once, and no
\* region is REQUIRED_AND_MISSING iff getStatusSummary().allDetected is
\* true.
C25_DetectedByRequiredClass ==
    Rendered =>
        /\ \A r \in Shown :
               fill[r] = COLORS.REQUIRED_DETECTED
                   => \E c \in Synonyms(r) :
                          InFold(currentRequired, c) /\ InFold(currentDetected, c)
        /\ (MissingRegions = {}) <=> getStatusSummary.allDetected

\* C25, amended: a region is shown REQUIRED_AND_DETECTED only if one of its
\* synonyms is required and one of its synonyms, the same or another, is
\* detected; with required = [Helmet] and detected = [Head] the head is
\* shown as satisfied while allDetected is false; and when allDetected is
\* true no region is REQUIRED_AND_MISSING.
C25_DetectedBySynonym ==
    Rendered =>
        /\ \A r \in Shown :
               fill[r] = COLORS.REQUIRED_DETECTED
                   => /\ \E c \in Synonyms(r) : InFold(currentRequired, c)
                      /\ \E d \in Synonyms(r) : InFold(currentDetected, d)
        /\ (currentRequired = <<S_Helmet>> /\ currentDetected = <<S_Head>>)
               => /\ fill["head"] = COLORS.REQUIRED_DETECTED
                  /\ MissingRegions = {}
                  /\ ~getStatusSummary.allDetected
        /\ getStatusSummary.allDetected => MissingRegions = {}

C25_Witness ==
    /\ Rendered
    /\ currentRequired = <<S_Helmet>>
    /\ currentDetected = <<S_Head>>
    /\ fill["head"] = COLORS.REQUIRED_DETECTED
    /\ ~getStatusSummary.allDetected

(***************************************************************************)
(* PIN keypad (websocket_handler.js, 515-657).  The keypad page sends the  *)
(* PIN to /api/auth/pin with fetch; a request is in flight from the call   *)
(* of fetch until one of its promise callbacks runs.  The callbacks of a   *)
(* page that has been left do not run.                                     *)
(***************************************************************************)
MAX_PIN_LENGTH == 6

\* what the keypad's handlers and callbacks leave alone
pinFrame == UNCHANGED <<wsVars, vizVars, domVars, seqVars, netVars, present>>

\* the window still shows the keypad page
OnPage == location = "/login"

\* showAlert(message, type), the timer queue being q: the alert and the
\* queue afterwards; the timer carries the number of its alert in `seq`
showAlert(q, message, type) ==
    [alert |-> [message |-> message, type |-> type, n |-> alert.n + 1,
                shown |-> TRUE],
     timers |-> Append(q, Timer("removeAlert", "alert-container", "", 5000,
                                alert.n + 1, 0))]

\* addDigit(digit), with the updateDisplay() it ends with
addDigit(digit) ==
    IF Len(pinValue) < MAX_PIN_LENGTH
    THEN /\ pinValue' = Append(pinValue, digit)
         /\ dots' = Len(pinValue')
         /\ timers' = IF Len(pinValue') = MAX_PIN_LENGTH
                      THEN Append(timers, Timer("submitPIN", "", "", 300, 0, 0))
                      ELSE timers
    ELSE UNCHANGED <<pinValue, dots, timers>>

\* deleteDigit()
deleteDigit ==
    IF Len(pinValue) > 0
    THEN /\ pinValue' = SubSeq(pinValue, 1, Len(pinValue) - 1)
         /\ dots' = Len(pinValue')
    ELSE UNCHANGED <<pinValue, dots>>

\* submitPIN(), the timer queue being q: disableKeypad(true) and fetch
submitPIN(q) ==
    IF Len(pinValue) < 4
    THEN LET a == showAlert(q, "PIN must be at least 4 digits", "error")
         IN  /\ alert' = a.alert
             /\ timers' = a.timers
             /\ UNCHANGED <<keysDisabled, requests>>
    ELSE /\ keysDisabled' = TRUE
         /\ requests' = Append(requests, [pin |-> pinValue])
         /\ timers' = q
         /\ UNCHANGED alert

Digits == {"1"}

\* the 'keydown' listener of the document
keydown(key) ==
    /\ OnPage
    /\ CASE key \in Digits ->
              addDigit(key) /\ UNCHANGED <<keysDisabled, requests, alert>>
         [] key = "Backspace" ->
              deleteDigit /\ UNCHANGED <<timers, keysDisabled, requests, alert>>
         [] key = "Enter" ->
              submitPIN(timers) /\ UNCHANGED <<pinValue, dots>>
         [] OTHER ->
              UNCHANGED <<pinValue, dots, timers, keysDisabled, requests, alert>>
    /\ last' = [Ran("keydown") EXCEPT !.on = key]
    /\ UNCHANGED <<displayShake, adminToken, location, lockStatus>>
    /\ pinFrame

\* setTimeout(submitPIN, 300) of addDigit
OnSubmitPIN ==
    /\ OnPage
    /\ Due("submitPIN")
    /\ submitPIN(Rest)
    /\ last' = RanTimer(DueTimer)
    /\ UNCHANGED <<pinValue, dots, displayShake, adminToken, location,
                   lockStatus, nEvents>>
    /\ pinFrame

\* what the server answers to a PIN; `error` stands for a failed fetch or a
\* body that is not JSON
Responses ==
    {[success |-> TRUE, token |-> "t0k3n"], [success |-> TRUE],
     [success |-> FALSE, message |-> "Invalid PIN"], [error |-> TRUE]}

Outcome(data) ==
    IF has(data, "error") THEN "error"
    ELSE IF data.success THEN "success" ELSE "failure"

\* the promise callbacks of the fetch in submitPIN, for the i-th request in
\* flight
pinResponse(i, data) ==
    /\ OnPage
    /\ i \in 1..Len(requests)
    /\ requests' = [j \in 1..(Len(requests) - 1) |->
                       IF j < i THEN requests[j] ELSE requests[j + 1]]
    /\ CASE Outcome(data) = "success" ->
              LET a == showAlert(timers, "Authentication successful!", "success")
              IN  /\ alert' = a.alert
                  /\ adminToken' = IF has(data, "token") THEN data.token
                                   ELSE adminToken
                  /\ timers' = Append(a.timers,
                                      Timer("redirect", "", "/admin", 500, 0, 0))
                  /\ UNCHANGED <<pinValue, dots, keysDisabled, displayShake>>
         [] Outcome(data) = "failure" ->
              LET a == showAlert(timers, data.message, "error")
              IN  /\ alert' = a.alert
                  /\ displayShake' = TRUE
                  /\ timers' = Append(a.timers,
                                      Timer("removeShake", "pin-display", "shake",
                                            300, 0, 0))
                  /\ pinValue' = <<>>
                  /\ dots' = 0
                  /\ keysDisabled' = FALSE
                  /\ UNCHANGED adminToken
         [] OTHER ->
              LET a == showAlert(timers, "Connection error. Please try again.",
                                 "error")
              IN  /\ alert' = a.alert
                  /\ timers' = a.timers
                  /\ pinValue' = <<>>
                  /\ dots' = 0
                  /\ keysDisabled' = FALSE
                  /\ UNCHANGED <<displayShake, adminToken>>
    /\ last' = [Ran("pinResponse") EXCEPT !.on = Outcome(data)]
    /\ UNCHANGED <<location, lockStatus, nEvents>>
    /\ pinFrame

\* what the server answers to the lock-status query
LockReplies ==
    {[locked |-> FALSE], [locked |-> TRUE, remaining_time |-> 30],
     [error |-> TRUE]}

\* the promise callbacks of fetch('/api/auth/lock-status')
lockStatusResponse(data) ==
    /\ OnPage
    /\ lockStatus = "pending"
    /\ lockStatus' = "done"
    /\ IF ~has(data, "error") /\ data.locked
       THEN LET a == showAlert(timers,
                         "Account locked. Try again in "
                             \o ToString(data.remaining_time) \o " seconds",
                         "error")
            IN  /\ alert' = a.alert
                /\ keysDisabled' = TRUE
                /\ timers' = Append(a.timers,
                                    Timer("reload", "", "",
                                          data.remaining_time * 1000, 0, 0))
       ELSE UNCHANGED <<alert, keysDisabled, timers>>
    /\ last' = Ran("lockStatusResponse")
    /\ UNCHANGED <<pinValue, dots, requests, displayShake, adminToken,
                   location, nEvents>>
    /\ pinFrame

\* showAlert, 5 s later: alertDiv.remove(), a no-op once another alert has
\* replaced it
OnRemoveAlert ==
    /\ OnPage
    /\ Due("removeAlert")
    /\ alert' = IF alert.n = DueTimer.seq THEN [alert EXCEPT !.shown = FALSE]
                ELSE alert
    /\ timers' = Rest
    /\ last' = RanTimer(DueTimer)
    /\ UNCHANGED <<pinValue, dots, keysDisabled, requests, displayShake,
                   adminToken, location, lockStatus, nEvents>>
    /\ pinFrame

\* shakeDisplay, 300 ms later
OnRemoveShake ==
    /\ OnPage
    /\ Due("removeShake")
    /\ displayShake' = FALSE
    /\ timers' = Rest
    /\ last' = RanTimer(DueTimer)
    /\ UNCHANGED <<pinValue, dots, keysDisabled, requests, alert, adminToken,
                   location, lockStatus, nEvents>>
    /\ pinFrame

\* window.location.href = '/admin' after a success, location.reload() at
\* the end of a lockout: the keypad page is left
OnLeavePage ==
    /\ OnPage
    /\ Due("redirect") \/ Due("reload")
    /\ location' = IF DueTimer.kind = "redirect" THEN DueTimer.arg ELSE "reload"
    /\ timers' = Rest
    /\ last' = RanTimer(DueTimer)
    /\ UNCHANGED <<pinValue, dots, keysDisabled, requests, alert, displayShake,
                   adminToken, lockStatus, nEvents>>
    /\ pinFrame

(***************************************************************************)
(* SpecPin: the keypad page under key events, the answers of the server    *)
(* and its own timers, in any order.                                       *)
(***************************************************************************)
\* key events in one behaviour of SpecPin
MaxPin == 7

Keys == Digits \cup {"Backspace", "Enter", "Tab"}

PinKey == Count(MaxPin) /\ \E key \in Keys : keydown(key)
PinResponse ==
    \E i \in 1..Len(requests), data \in Responses : pinResponse(i, data)
PinLock == \E data \in LockReplies : lockStatusResponse(data)

NextPin ==
    \/ PinKey
    \/ PinResponse
    \/ PinLock
    \/ Advance
    \/ OnSubmitPIN
    \/ OnRemoveAlert
    \/ OnRemoveShake
    \/ OnLeavePage

SpecPin == InitSync /\ [][NextPin]_vars

\* the step is a promise callback of a PIN request that failed or errored
Rejected ==
    last' # last /\ last'.op = "pinResponse" /\ last'.on \in {"failure", "error"}

\* C26 as claimed: at most one request to /api/auth/pin is in flight at any
\* time; while one is in flight the PIN does not change, whatever the
\* order of digit, Backspace and Enter key events, the 300 ms auto-submit
\* timer and the response; every request carries a PIN of 4 to 6 digits;
\* and after a failed or errored request the PIN is empty and the keypad
\* is enabled.
C26_OneRequestInFlight ==
    /\ [](Len(requests) <= 1)
    /\ [](\A i \in 1..Len(requests) : Len(requests[i].pin) \in 4..MAX_PIN_LENGTH)
    /\ [][(requests # <<>> /\ requests' # <<>>) => pinValue' = pinValue]_vars
    /\ [][Rejected => (pinValue' = <<>> /\ ~keysDisabled')]_vars

(***************************************************************************)
(* Properties of the PPE item list.                                        *)
(***************************************************************************)
\* C27 as claimed: after every detection_update and every config_update
\* the PPE list shows the placeholder (or still the markup the page was
\* served with) iff requiredClasses is empty, and otherwise exactly one
\* entry per class of requiredClasses, in order, each marked detected iff
\* the class is, case-insensitively, among the most recent detected
\* classes.
C27_ListReflectsRequirements ==
    last.op \in {"detection_update", "config_update"} =>
        /\ ppeList.kind \in {"placeholder", "markup"} <=> requiredClasses = <<>>
        /\ requiredClasses # <<>> =>
               /\ ppeList.kind = "items"
               /\ Len(ppeList.items) = Len(requiredClasses)
               /\ \A i \in 1..Len(ppeList.items) :
                      /\ ppeList.items[i].name = requiredClasses[i]
                      /\ ppeList.items[i].detected
                             <=> InFold(detectedClasses, requiredClasses[i])

====
